---- MODULE Spec2Model ----
(***************************************************************************)
(* A model of binary_parser.py: the BinaryParser class.                    *)
(*                                                                         *)
(* The layout file is an input stream: each readline() draws the next line *)
(* from a small alphabet of lines, or reports the end of the file.  A line *)
(* is the sequence of its space-separated tokens, as str.split(' ') gives  *)
(* them; the empty line (also what readline() returns at the end of the    *)
(* file, after strip()) is the one-token sequence <<"">>.                  *)
(*                                                                         *)
(* parse_layout is modelled one loop iteration at a time; parse_file and   *)
(* write_back are single actions computing the whole handler.              *)
(***************************************************************************)
EXTENDS Integers, Sequences, FiniteSets, TLC

(***************************************************************************)
(* Bounds of the model.                                                    *)
(***************************************************************************)
\* Lines the layout file holds at most (readline() reports the end of the
\* file after that many lines at the latest).
MaxLines == 9

\* Field and padding lines a section of the layout file holds at most.
MaxFields == 2

\* Bytes the binary file holds at most.
FileLen == 3

\* Operations (parse_file, write_back, an edit of the database) run on one
\* parser at most, and the edits among them.
MaxOps == 3

MaxEdits == 1

\* The line counter of parse_layout is unbounded in the code (it keeps
\* counting reads past the end of the file).  The model stops counting at
\* LinenoCap, which is beyond every line number parse_layout can report.
LinenoCap == MaxLines + 2

(***************************************************************************)
(* Layout lines.                                                           *)
(***************************************************************************)
BlankLine == <<"">>

BeginLine == <<"begin">>

EndLine == <<"end">>

EndFileLine == <<"endfile">>

\* Header lines: <tablename> <base_offset> <section_total_bytes> <record_count>.
HeaderLines ==
    { <<"t", "0", "2", "1">>,
      <<"t", "0x1", "1", "1">>,
      <<"t", "1", "2", "2">>,
      <<"u", "0", "1", "2">>,
      <<"t", "0", "0x2", "1">>,
      <<"t", "0", "2">> }

\* Field and padding lines, well formed and not.
FieldLines ==
    { <<"a", "int", "2">>,
      <<"b", "int", "1">>,
      <<"s", "str", "1">>,
      <<"x", "float", "1">>,
      <<"padding", "1">>,
      <<"padding">>,
      <<"b", "int">>,
      <<"b", "int", "n">> }

Lines ==
    {BlankLine, BeginLine, EndLine, EndFileLine} \cup HeaderLines \cup FieldLines

\* The lines of the layout files the read and write operations are run on.
IOLines ==
    { BeginLine, EndLine, EndFileLine,
      <<"t", "0", "2", "1">>, <<"t", "0x1", "1", "1">>, <<"u", "0", "1", "2">>,
      <<"a", "int", "2">>, <<"b", "int", "1">>, <<"s", "str", "1">>,
      <<"x", "float", "1">>, <<"padding", "1">> }

\* Layout files of integer fields and padding only.
IntLines ==
    { BeginLine, EndLine, EndFileLine,
      <<"t", "0", "2", "1">>, <<"u", "0", "1", "2">>,
      <<"a", "int", "2">>, <<"b", "int", "1">>, <<"padding", "1">> }

\* Lines between two blocks: a block, the end of the layout, and lines that
\* are skipped.
OuterLines == {BlankLine, BeginLine, EndLine, EndFileLine}

(***************************************************************************)
(* int(): the integer a token denotes.  int(x) reads decimal digits only;  *)
(* int(x, 0) also reads a 0x prefix.  Any other token raises ValueError.   *)
(***************************************************************************)
DecimalValue ==
    ("0" :> 0) @@ ("1" :> 1) @@ ("2" :> 2) @@ ("3" :> 3) @@ ("4" :> 4)

HexValue ==
    ("0x0" :> 0) @@ ("0x1" :> 1) @@ ("0x2" :> 2) @@ ("0x3" :> 3)

IsInt(tok) == tok \in DOMAIN DecimalValue

IntOf(tok) == DecimalValue[tok]

IsInt0(tok) == tok \in DOMAIN DecimalValue \/ tok \in DOMAIN HexValue

Int0Of(tok) == IF tok \in DOMAIN DecimalValue THEN DecimalValue[tok] ELSE HexValue[tok]

\* str.startswith(word), for a line whose first token is not a longer word
\* beginning with `word` (the alphabet holds none).
StartsWith(ln, word) == ln[1] = word

(***************************************************************************)
(* State.                                                                  *)
(***************************************************************************)
VARIABLES
    pc,             \* where the program is
    unread,         \* lines the layout file still holds, at most
    eof,            \* readline() has reported the end of the layout file
    layoutOpen,     \* self.layout is an open file handle
    sections,       \* self.sections
    data,           \* self.data: the tables in insertion order
    line,           \* parse_layout: line
    lineno,         \* parse_layout: lineno
    tablename,      \* parse_layout: tablename
    baseoffset,     \* parse_layout: baseoffset
    total,          \* parse_layout: total
    counts,         \* parse_layout: counts
    section_lineno, \* parse_layout: section_lineno
    subtotal,       \* parse_layout: subtotal
    section,        \* parse_layout: section
    headerAt,       \* history: the place in the layout file of the last header read
    err,            \* the exception that ended the program, "" if none
    errmsg,         \* the message an InvalidLayoutError carries
    errline,        \* the linenumber an InvalidLayoutError carries, 0 otherwise
    byteorder,      \* self.byteorder
    file_offset,    \* self.file_offset
    file,           \* the bytes of the binary file
    touched,        \* the binary file has been opened by an operation
    file0,          \* history: the binary file as the first operation found it
    store,          \* the database: its tables in creation order
    fOpen,          \* a handle on the binary file is open
    connOpen,       \* a database connection is open
    ops             \* history: the operations run so far

layoutVars ==
    << pc, unread, eof, layoutOpen, sections, data, line, lineno, tablename,
       baseoffset, total, counts, section_lineno, subtotal, section, headerAt,
       err, errmsg, errline >>

ioVars == << byteorder, file_offset, file, touched, file0, store, fOpen, connOpen, ops >>

vars == << layoutVars, ioVars >>

(***************************************************************************)
(* self.data helpers.                                                      *)
(***************************************************************************)
TableIndex(d, name) ==
    IF \E i \in 1..Len(d) : d[i].name = name
    THEN CHOOSE i \in 1..Len(d) : d[i].name = name
    ELSE 0

\* Lines 47-51: the table is created on its first header.
WithTable(d, name, cnt) ==
    IF TableIndex(d, name) = 0
    THEN Append(d, [name |-> name, count |-> cnt, sections |-> <<>>])
    ELSE d

\* Lines 95-98.
WithSection(d, name, off, flds) ==
    [d EXCEPT ![TableIndex(d, name)].sections =
        Append(@, [offset |-> off, data |-> flds])]

\* A parser that compares no counts.
CountsNeverDiffer(d, name, cnt) == FALSE

\* Line 53: the count of a header against the count of its table.
CountsDiffer(d, name, cnt) == cnt # d[TableIndex(d, name)].count

BumpLineno(n) == IF n < LinenoCap THEN n + 1 ELSE n

(***************************************************************************)
(* The field codec: int.from_bytes, int.to_bytes, bytes.decode and         *)
(* bytearray(str, encoding) for the default encoding, UTF-8.  A text is    *)
(* the sequence of its code points; the model covers the one- and two-byte *)
(* forms of UTF-8 (code points below 2048).                                *)
(***************************************************************************)
RECURSIVE Pow256(_)
Pow256(n) == IF n <= 0 THEN 1 ELSE 256 * Pow256(n - 1)

Reverse(sq) == [i \in 1..Len(sq) |-> sq[Len(sq) + 1 - i]]

Zeros(n) == [i \in 1..n |-> 0]

RECURSIVE BigEndianValue(_)
BigEndianValue(bs) ==
    IF bs = <<>> THEN 0
    ELSE 256 * BigEndianValue(SubSeq(bs, 1, Len(bs) - 1)) + bs[Len(bs)]

\* Line 147: int.from_bytes(bytes, self.byteorder).
FromBytes(bs, order) ==
    IF order = "big" THEN BigEndianValue(bs) ELSE BigEndianValue(Reverse(bs))

RECURSIVE BigEndianBytes(_, _)
BigEndianBytes(v, len) ==
    IF len = 0 THEN <<>>
    ELSE Append(BigEndianBytes(v \div 256, len - 1), v % 256)

\* An encoder whose limit is one too high: it wraps the value 256^len.
ToBytesWrapping(v, len, order) ==
    IF v < 0 \/ v > Pow256(len)
    THEN [err |-> "OverflowError", bytes |-> <<>>]
    ELSE [err |-> "",
          bytes |-> IF order = "big" THEN BigEndianBytes(v, len)
                    ELSE Reverse(BigEndianBytes(v, len))]

\* Line 198: data.to_bytes(length, self.byteorder); OverflowError when the
\* value is negative or does not fit in `len` bytes.
ToBytes(v, len, order) ==
    IF v < 0 \/ v >= Pow256(len)
    THEN [err |-> "OverflowError", bytes |-> <<>>]
    ELSE [err |-> "",
          bytes |-> IF order = "big" THEN BigEndianBytes(v, len)
                    ELSE Reverse(BigEndianBytes(v, len))]

\* Line 149: bytes.decode('utf-8'); UnicodeDecodeError on a byte sequence
\* that is not UTF-8.
RECURSIVE Utf8Decode(_)
Utf8Decode(bs) ==
    IF bs = <<>> THEN [err |-> "", text |-> <<>>]
    ELSE IF bs[1] < 128
    THEN LET rest == Utf8Decode(Tail(bs)) IN
         [err |-> rest.err, text |-> <<bs[1]>> \o rest.text]
    ELSE IF bs[1] \in 194..223 /\ Len(bs) >= 2 /\ bs[2] \in 128..191
    THEN LET rest == Utf8Decode(Tail(Tail(bs))) IN
         [err |-> rest.err,
          text |-> <<(bs[1] - 192) * 64 + (bs[2] - 128)>> \o rest.text]
    ELSE [err |-> "UnicodeDecodeError", text |-> <<>>]

\* Lines 192-193: bytearray(data, encoding='utf-8').
RECURSIVE Utf8Encode(_)
Utf8Encode(text) ==
    IF text = <<>> THEN <<>>
    ELSE IF text[1] < 128
    THEN <<text[1]>> \o Utf8Encode(Tail(text))
    ELSE <<192 + (text[1] \div 64), 128 + (text[1] % 64)>> \o Utf8Encode(Tail(text))

\* Lines 146-151: the value of a field read from `bs`.
DecodeField(type, bs, order) ==
    IF type = "int" THEN [err |-> "", value |-> FromBytes(bs, order)]
    ELSE IF type = "str"
    THEN LET d == Utf8Decode(bs) IN [err |-> d.err, value |-> d.text]
    ELSE [err |-> "TypeError", value |-> 0]

\* Lines 194-195: b'\x00' * padding_len is empty when padding_len is negative.
PadText(bs, len) ==
    IF len - Len(bs) > 0 THEN bs \o Zeros(len - Len(bs)) ELSE bs

\* Lines 190-200: the bytes of a field written for `value`.
EncodeField(type, value, len, order) ==
    IF type = "str" THEN [err |-> "", bytes |-> PadText(Utf8Encode(value), len)]
    ELSE IF type = "int" THEN ToBytes(value, len, order)
    ELSE [err |-> "TypeError", bytes |-> <<>>]

(***************************************************************************)
(* The binary file: a sequence of bytes, read and written at a position.   *)
(***************************************************************************)
\* f.read(n) at position pos: the bytes the file holds there, at most n.
ReadAt(f, pos, n) ==
    IF pos >= Len(f) THEN <<>>
    ELSE SubSeq(f, pos + 1, IF pos + n <= Len(f) THEN pos + n ELSE Len(f))

\* f.seek(pos); f.write(bs): a write past the end fills the gap with zeros,
\* a write of nothing changes nothing.
WriteAt(f, pos, bs) ==
    IF bs = <<>> THEN f
    ELSE LET base == IF pos > Len(f) THEN f \o Zeros(pos - Len(f)) ELSE f IN
         SubSeq(base, 1, pos) \o bs \o SubSeq(base, pos + Len(bs) + 1, Len(base))

(***************************************************************************)
(* Inputs of the read and write operations.                                *)
(***************************************************************************)
ByteVals == {1, 255}

Files == UNION { [1..n -> ByteVals] : n \in 0..FileLen }

ByteOrders == {"little", "big"}

FileOffsets == {0, 1}

(***************************************************************************)
(* The layout as parse_file and write_back walk it.                        *)
(***************************************************************************)
IsColumn(fld) == fld[1] # "padding"

\* Lines 122-127: the non-padding fields of the sections, in order.
RECURSIVE Columns(_)
Columns(sects) ==
    IF sects = <<>> THEN <<>>
    ELSE SelectSeq(Head(sects).data, IsColumn) \o Columns(Tail(sects))

Names(flds) == [i \in 1..Len(flds) |-> flds[i][1]]

(***************************************************************************)
(* The database: a table holds its column names and its rows in rowid      *)
(* order; a row holds one value for each column.                           *)
(***************************************************************************)
HasTable(st, name) == \E i \in 1..Len(st) : st[i].name = name

StoreIndex(st, name) == CHOOSE i \in 1..Len(st) : st[i].name = name

\* Lines 105-109, 129-130: CREATE TABLE IF NOT EXISTS fails on an empty or
\* repeated column list.
CreateFails(cols) ==
    \/ cols = <<>>
    \/ \E i, j \in 1..Len(cols) : i < j /\ cols[i][1] = cols[j][1]

CreateTable(st, name, cols) ==
    IF HasTable(st, name) THEN st
    ELSE Append(st, [name |-> name, cols |-> Names(cols), rows |-> <<>>])

\* Lines 154-155: INSERT INTO ... executemany.
InsertRows(st, name, rows) ==
    [st EXCEPT ![StoreIndex(st, name)].rows = @ \o rows]

ColumnIndex(cols, name) == CHOOSE i \in 1..Len(cols) : cols[i] = name

\* Lines 161-168, 179-180: SELECT the section's columns FROM the table.
SelectRows(st, name, names) ==
    LET tb == st[StoreIndex(st, name)] IN
    [r \in 1..Len(tb.rows) |->
        [k \in 1..Len(names) |-> tb.rows[r][ColumnIndex(tb.cols, names[k])]]]

(***************************************************************************)
(* parse_file.                                                             *)
(***************************************************************************)
\* Lines 140-152: the fields of one record, read from position pos.
RECURSIVE ReadRecord(_, _, _, _, _)
ReadRecord(f, pos, flds, i, row) ==
    IF i > Len(flds) THEN [err |-> "", pos |-> pos, row |-> row]
    ELSE LET bs == ReadAt(f, pos, flds[i][3])
             at == pos + Len(bs)
         IN  IF flds[i][1] = "padding"
             THEN ReadRecord(f, at, flds, i + 1, row)
             ELSE LET d == DecodeField(flds[i][2], bs, byteorder) IN
                  IF d.err # ""
                  THEN [err |-> d.err, pos |-> at, row |-> row]
                  ELSE ReadRecord(f, at, flds, i + 1, Append(row, d.value))

\* Line 139: the records of one section, each appended to its row.
RECURSIVE ReadRecords(_, _, _, _, _)
ReadRecords(f, pos, flds, rows, r) ==
    IF r > Len(rows) THEN [err |-> "", rows |-> rows]
    ELSE LET rec == ReadRecord(f, pos, flds, 1, rows[r]) IN
         IF rec.err # "" THEN [err |-> rec.err, rows |-> rows]
         ELSE ReadRecords(f, rec.pos, flds, [rows EXCEPT ![r] = rec.row], r + 1)

\* Lines 136-137: the sections of one table.
RECURSIVE ReadSections(_, _, _, _)
ReadSections(f, sects, k, rows) ==
    IF k > Len(sects) THEN [err |-> "", rows |-> rows]
    ELSE LET got == ReadRecords(f, sects[k].offset + file_offset,
                                sects[k].data, rows, 1)
         IN  IF got.err # "" THEN got
             ELSE ReadSections(f, sects, k + 1, got.rows)

\* Lines 121-155: the tables of the layout, in insertion order.
RECURSIVE ReadTables(_, _, _)
ReadTables(f, t, st) ==
    IF t > Len(data) THEN [err |-> "", store |-> st]
    ELSE LET cols == Columns(data[t].sections) IN
         IF CreateFails(cols) THEN [err |-> "OperationalError", store |-> st]
         ELSE LET got == ReadSections(f, data[t].sections, 1,
                                      [r \in 1..data[t].count |-> <<>>])
              IN  IF got.err # "" THEN [err |-> got.err, store |-> st]
                  ELSE ReadTables(f, t + 1,
                           InsertRows(CreateTable(st, data[t].name, cols),
                                      data[t].name, got.rows))

\* What the database holds after a parse_file that raised: nothing was
\* committed, and of the CREATE TABLE statements only the first ran outside
\* a transaction (sqlite3 opens one with the first INSERT).
StoreAfterFailure(st) ==
    IF data # <<>> /\ ~CreateFails(Columns(data[1].sections))
    THEN CreateTable(st, data[1].name, Columns(data[1].sections))
    ELSE st

\* Lines 116-159.
ParseFileResult(f, st) ==
    LET run == ReadTables(f, 1, st) IN
    IF run.err = "" THEN run
    ELSE [err |-> run.err, store |-> StoreAfterFailure(st)]

(***************************************************************************)
(* write_back.                                                             *)
(***************************************************************************)
\* Lines 183-203: the bytes of one record; idx counts the values consumed.
RECURSIVE EncodeRecord(_, _, _, _)
EncodeRecord(flds, i, entry, idx) ==
    IF i > Len(flds) THEN [err |-> "", bytes |-> <<>>]
    ELSE IF flds[i][1] = "padding"
    THEN LET rest == EncodeRecord(flds, i + 1, entry, idx) IN
         [err |-> rest.err, bytes |-> Zeros(flds[i][3]) \o rest.bytes]
    ELSE LET enc == EncodeField(flds[i][2], entry[idx + 1], flds[i][3], byteorder) IN
         IF enc.err # "" THEN enc
         ELSE LET rest == EncodeRecord(flds, i + 1, entry, idx + 1) IN
              [err |-> rest.err, bytes |-> enc.bytes \o rest.bytes]

\* Lines 181-182: the records of all the rows fetched, one after the other.
RECURSIVE EncodeRows(_, _, _)
EncodeRows(flds, rows, r) ==
    IF r > Len(rows) THEN [err |-> "", bytes |-> <<>>]
    ELSE LET rec == EncodeRecord(flds, 1, rows[r], 0) IN
         IF rec.err # "" THEN rec
         ELSE LET rest == EncodeRows(flds, rows, r + 1) IN
              [err |-> rest.err, bytes |-> rec.bytes \o rest.bytes]

\* Lines 178-206: one section; the file is written once its buffer is built.
WriteSection(f, st, name, sect) ==
    IF sect.data = <<>> THEN [err |-> "IndexError", file |-> f]
    ELSE IF SelectSeq(sect.data, IsColumn) = <<>> \/ ~HasTable(st, name)
    THEN [err |-> "OperationalError", file |-> f]
    ELSE LET rows == SelectRows(st, name, Names(SelectSeq(sect.data, IsColumn)))
             buf == EncodeRows(sect.data, rows, 1)
         IN  IF buf.err # "" THEN [err |-> buf.err, file |-> f]
             ELSE [err |-> "",
                   file |-> WriteAt(f, sect.offset + file_offset, buf.bytes)]

\* Lines 176-177: the sections of the tables, in order; (t, k) is the next.
RECURSIVE WriteSections(_, _, _, _)
WriteSections(f, st, t, k) ==
    IF t > Len(data) THEN [err |-> "", file |-> f]
    ELSE IF k > Len(data[t].sections) THEN WriteSections(f, st, t + 1, 1)
    ELSE LET w == WriteSection(f, st, data[t].name, data[t].sections[k]) IN
         IF w.err # "" THEN w
         ELSE WriteSections(w.file, st, t, k + 1)

\* Lines 170-209.
WriteBackResult(f, st) == WriteSections(f, st, 1, 1)

(***************************************************************************)
(* readline().strip(): the next line of the layout file.                   *)
(***************************************************************************)
ReadLine(ln, L) ==
    \/ /\ unread > 0
       /\ ln \in L
       /\ unread' = unread - 1
       /\ eof' = FALSE
    \/ /\ ln = BlankLine
       /\ unread' = 0
       /\ eof' = TRUE

\* The next line between two blocks: the layout files considered hold only
\* these lines there.
ReadOuterLine(ln, L) ==
    /\ ReadLine(ln, L)
    /\ ln \in OuterLines

\* The next line of a section body: the layout files considered hold at most
\* MaxFields field or padding lines in a section.
ReadBodyLine(ln, held, L) ==
    /\ ReadLine(ln, L)
    /\ held >= MaxFields => ln \notin FieldLines

\* The locals of parse_layout leave scope, on return and on an exception:
\* they take their initial values.
LocalsGone ==
    /\ line' = BlankLine
    /\ lineno' = 0
    /\ tablename' = ""
    /\ baseoffset' = 0
    /\ total' = 0
    /\ counts' = 0
    /\ section_lineno' = 0
    /\ subtotal' = 0
    /\ section' = <<>>

\* raise InvalidLayoutError(msg, at), or another exception (at = 0), out of
\* parse_layout and __enter__.
Raise(kind, msg, at) ==
    /\ pc' = "raised"
    /\ err' = kind
    /\ errmsg' = msg
    /\ errline' = at
    /\ LocalsGone

(***************************************************************************)
(* __init__ and __enter__.                                                 *)
(***************************************************************************)
Init ==
    /\ byteorder \in ByteOrders
    /\ file_offset \in FileOffsets
    /\ file = <<>>
    /\ touched = FALSE
    /\ file0 = <<>>
    /\ store = <<>>
    /\ fOpen = FALSE
    /\ connOpen = FALSE
    /\ ops = <<>>
    /\ pc = "constructed"
    /\ unread = MaxLines
    /\ eof = FALSE
    /\ layoutOpen = FALSE
    /\ sections = 0
    /\ data = <<>>
    /\ line = BlankLine
    /\ lineno = 0
    /\ tablename = ""
    /\ baseoffset = 0
    /\ total = 0
    /\ counts = 0
    /\ section_lineno = 0
    /\ subtotal = 0
    /\ section = <<>>
    /\ headerAt = 0
    /\ err = ""
    /\ errmsg = ""
    /\ errline = 0

\* __enter__ opens the layout file and enters parse_layout (lines 29-31).
Enter ==
    /\ pc = "constructed"
    /\ layoutOpen' = TRUE
    /\ data' = <<>>
    /\ line' = BlankLine
    /\ lineno' = 0
    /\ pc' = "scan"
    /\ UNCHANGED << unread, eof, sections, tablename, baseoffset, total,
                    counts, section_lineno, subtotal, section, headerAt, err,
                    errmsg, errline >>
    /\ UNCHANGED ioVars

(***************************************************************************)
(* parse_layout.                                                           *)
(***************************************************************************)
\* Line 32: the loop ends on 'endfile'; parse_layout and __enter__ return, the
\* locals of parse_layout leave scope (they take their initial values) and
\* what the layout file holds after 'endfile' is never read.
EndFile ==
    /\ pc = "scan"
    /\ line = EndFileLine
    /\ pc' = "ready"
    /\ LocalsGone
    /\ headerAt' = 0
    /\ unread' = 0
    /\ UNCHANGED << eof, layoutOpen, sections, data, err, errmsg, errline >>
    /\ UNCHANGED ioVars

\* Lines 32-33, 99: a line that is neither 'endfile' nor a 'begin'.
OtherLine ==
    /\ pc = "scan"
    /\ line # EndFileLine
    /\ ~StartsWith(line, "begin")
    /\ pc' = "next"
    /\ UNCHANGED << unread, eof, layoutOpen, sections, data, line, lineno,
                    tablename, baseoffset, total, counts, section_lineno,
                    subtotal, section, headerAt, err, errmsg,
                    errline >>
    /\ UNCHANGED ioVars

\* Lines 99-100.
ReadNext(L) ==
    /\ pc = "next"
    /\ \E ln \in Lines :
        /\ ReadOuterLine(ln, L)
        /\ line' = ln
    /\ lineno' = BumpLineno(lineno)
    /\ pc' = "scan"
    /\ UNCHANGED << layoutOpen, sections, data, tablename, baseoffset, total,
                    counts, section_lineno, subtotal, section, headerAt, err,
                    errmsg, errline >>
    /\ UNCHANGED ioVars

\* Lines 33-55: 'begin' and the header line.
BeginBlock(L) ==
    /\ pc = "scan"
    /\ line # EndFileLine
    /\ StartsWith(line, "begin")
    /\ sections' = sections + 1
    /\ \E hdr \in Lines :
        /\ ReadLine(hdr, L)
        /\ headerAt' = MaxLines - unread + 1
        /\ IF Len(hdr) # 4
           THEN /\ Raise("InvalidLayoutError", "table must have four arguments",
                        BumpLineno(lineno))
                /\ UNCHANGED data
           ELSE IF ~(IsInt0(hdr[2]) /\ IsInt(hdr[3]) /\ IsInt(hdr[4]))
           THEN /\ Raise("ValueError", "", 0)
                /\ UNCHANGED data
           ELSE /\ data' = WithTable(data, hdr[1], IntOf(hdr[4]))
                /\ IF CountsDiffer(data', hdr[1], IntOf(hdr[4]))
                   THEN Raise("InvalidLayoutError", "Counts must be equal",
                              BumpLineno(lineno))
                   ELSE /\ line' = hdr
                        /\ lineno' = BumpLineno(lineno)
                        /\ tablename' = hdr[1]
                        /\ baseoffset' = Int0Of(hdr[2])
                        /\ total' = IntOf(hdr[3])
                        /\ counts' = IntOf(hdr[4])
                        /\ pc' = "first"
                        /\ UNCHANGED << section_lineno, subtotal, section,
                                        err, errmsg, errline >>
    /\ UNCHANGED layoutOpen
    /\ UNCHANGED ioVars

\* The loop of line 62 goes on to its next test: `ln` is the line read, as
\* line number lineno + 1, and `sl` the section_lineno.
Advance(ln, sl) ==
    /\ line' = ln
    /\ lineno' = BumpLineno(lineno)
    /\ section_lineno' = sl
    /\ UNCHANGED << tablename, baseoffset, total, counts, err, errmsg, errline >>

\* Lines 63-89: the padding or field line `ln`, with `sub` and `sec` the
\* subtotal and the fields before it.
FieldLine(ln, sub, sec, sl) ==
    /\ UNCHANGED data
    /\ IF StartsWith(ln, "padding")
       THEN IF Len(ln) # 2
            THEN Raise("InvalidLayoutError", "padding must have one argument",
                       BumpLineno(lineno))
            ELSE IF ~IsInt(ln[2])
            THEN Raise("ValueError", "", 0)
            ELSE /\ section' = Append(sec, <<"padding", "int", IntOf(ln[2])>>)
                 /\ subtotal' = sub + IntOf(ln[2])
                 /\ pc' = "body"
                 /\ Advance(ln, sl)
       ELSE IF Len(ln) # 3
            THEN Raise("InvalidLayoutError", "column must have three arguments",
                       BumpLineno(lineno))
            ELSE IF ~IsInt(ln[3])
            THEN Raise("ValueError", "", 0)
            ELSE /\ section' = Append(sec, <<ln[1], ln[2], IntOf(ln[3])>>)
                 /\ subtotal' = sub + IntOf(ln[3])
                 /\ pc' = "body"
                 /\ Advance(ln, sl)

\* A parser that reports a wrong sum at the line of its 'end'.
EndSectionAtEnd(sub, sec, sl) ==
    IF sub # total
    THEN /\ Raise("InvalidLayoutError", "lengths do not add up", BumpLineno(lineno))
         /\ UNCHANGED data
    ELSE /\ data' = WithSection(data, tablename, baseoffset, sec)
         /\ subtotal' = sub
         /\ section' = sec
         /\ pc' = "next"
         /\ Advance(EndLine, sl)

\* Lines 62 and 92-98: 'end' closes the section whose fields are `sec`, of
\* subtotal `sub`.
EndSection(sub, sec, sl) ==
    IF sub # total
    THEN /\ Raise("InvalidLayoutError", "lengths do not add up", sl)
         /\ UNCHANGED data
    ELSE /\ data' = WithSection(data, tablename, baseoffset, sec)
         /\ subtotal' = sub
         /\ section' = sec
         /\ pc' = "next"
         /\ Advance(EndLine, sl)

\* Lines 57-61, then the first pass of the loop of line 62.
FirstField(L) ==
    /\ pc = "first"
    /\ \E ln \in Lines :
        /\ ReadLine(ln, L)
        /\ IF ln = EndLine
           THEN EndSection(0, <<>>, lineno)
           ELSE FieldLine(ln, 0, <<>>, lineno)
    /\ UNCHANGED << layoutOpen, sections, headerAt >>
    /\ UNCHANGED ioVars

\* Lines 90-91, then the next pass of the loop of line 62.
NextField(L) ==
    /\ pc = "body"
    /\ \E ln \in Lines :
        /\ ReadBodyLine(ln, Len(section), L)
        /\ IF ln = EndLine
           THEN EndSection(subtotal, section, section_lineno)
           ELSE FieldLine(ln, subtotal, section, section_lineno)
    /\ UNCHANGED << layoutOpen, sections, headerAt >>
    /\ UNCHANGED ioVars

\* __enter__ on a layout file made of the lines L.
ParseLayout(L) ==
    \/ Enter
    \/ EndFile
    \/ OtherLine
    \/ ReadNext(L)
    \/ BeginBlock(L)
    \/ FirstField(L)
    \/ NextField(L)

NextLayout == ParseLayout(Lines)

(***************************************************************************)
(* The operations on a parsed layout.  The binary file is an input: the    *)
(* first operation finds any file of Files at binary_path, the later ones  *)
(* the file as the earlier ones left it.  The database starts empty.       *)
(***************************************************************************)
BinaryFile == IF touched THEN {file} ELSE Files

CountOf(sq, x) == Cardinality({i \in 1..Len(sq) : sq[i] = x})

\* Lines 116-159.  An exception leaves parse_file before lines 157-159.
ParseFile ==
    /\ pc = "ready"
    /\ Len(ops) < MaxOps
    /\ \E f \in BinaryFile :
        LET res == ParseFileResult(f, store) IN
        /\ file' = f
        /\ file0' = IF touched THEN file0 ELSE f
        /\ store' = res.store
        /\ err' = res.err
        /\ pc' = IF res.err = "" THEN "ready" ELSE "failed"
        /\ fOpen' = (res.err # "")
        /\ connOpen' = (res.err # "")
    /\ touched' = TRUE
    /\ ops' = Append(ops, "parse_file")
    /\ UNCHANGED << unread, eof, layoutOpen, sections, data, line, lineno,
                    tablename, baseoffset, total, counts, section_lineno,
                    subtotal, section, headerAt, errmsg, errline,
                    byteorder,
                    file_offset >>

\* Lines 170-209.  An exception leaves write_back before lines 208-209; the
\* sections written before it stay written.
WriteBack ==
    /\ pc = "ready"
    /\ Len(ops) < MaxOps
    /\ \E f \in BinaryFile :
        LET res == WriteBackResult(f, store) IN
        /\ file' = res.file
        /\ file0' = IF touched THEN file0 ELSE f
        /\ err' = res.err
        /\ pc' = IF res.err = "" THEN "ready" ELSE "failed"
        /\ fOpen' = (res.err # "")
        /\ connOpen' = (res.err # "")
    /\ touched' = TRUE
    /\ ops' = Append(ops, "write_back")
    /\ UNCHANGED << unread, eof, layoutOpen, sections, data, line, lineno,
                    tablename, baseoffset, total, counts, section_lineno,
                    subtotal, section, headerAt, errmsg, errline,
                    byteorder,
                    file_offset, store >>

\* The field of table `name` that column `col` of the database comes from.
FieldOf(name, col) ==
    LET cols == Columns(data[TableIndex(data, name)].sections) IN
    cols[CHOOSE i \in 1..Len(cols) : cols[i][1] = col]

\* Values an edit of the database gives a column of `len` bytes: the largest
\* value that fits, the smallest that does not, a negative one; a shorter
\* text, a longer one, and one whose UTF-8 form is longer than its length.
IntEdits(len) == {Pow256(len) - 1, Pow256(len), -1}

TextEdits(len) == {<<>>, [i \in 1..(len + 1) |-> 65], [i \in 1..len |-> 233]}

EditValues(fld) == IF fld[2] = "str" THEN TextEdits(fld[3]) ELSE IntEdits(fld[3])

\* Between two operations the user of the database changes a value in it:
\* write_back writes what it finds in the database (lines 178-180).
EditStore ==
    /\ pc = "ready"
    /\ Len(ops) < MaxOps
    /\ CountOf(ops, "edit") < MaxEdits
    /\ \E t \in 1..Len(store) :
        \E r \in 1..Len(store[t].rows) :
            \E c \in 1..Len(store[t].cols) :
                \E v \in EditValues(FieldOf(store[t].name, store[t].cols[c])) :
                    store' = [store EXCEPT ![t].rows[r][c] = v]
    /\ ops' = Append(ops, "edit")
    /\ UNCHANGED << layoutVars, byteorder, file_offset, file, touched, file0,
                    fOpen, connOpen >>

\* Lines 24-25, 259: the with block is left, after the last operation or on
\* the exception of one.
Exit ==
    /\ pc \in {"ready", "failed"}
    /\ pc' = "closed"
    /\ layoutOpen' = FALSE
    /\ UNCHANGED << unread, eof, sections, data, line, lineno, tablename,
                    baseoffset, total, counts, section_lineno, subtotal,
                    section, headerAt, err, errmsg, errline >>
    /\ UNCHANGED ioVars

\* The operations of a parser that has entered.
Operate ==
    \/ ParseFile
    \/ WriteBack
    \/ EditStore
    \/ Exit

Next ==
    \/ ParseLayout(IOLines)
    \/ Operate

NextInt ==
    \/ ParseLayout(IntLines)
    \/ Operate

\* The whole program.
Spec == Init /\ [][Next]_vars

\* The default offset (line 12).
InitInt == Init /\ file_offset = 0

\* The whole program on layouts of integer fields, in either byte order.
SpecInt == InitInt /\ [][NextInt]_vars

\* Default byte order and offset (line 12): parse_layout reads neither.
InitLayout == Init /\ byteorder = "little" /\ file_offset = 0

\* __enter__ alone: the layout parser.
SpecLayout == InitLayout /\ [][NextLayout]_vars

\* The layout parser keeps running while it has a step to take: nothing in
\* __enter__ waits on anything but the next readline().
SpecLayoutFair == SpecLayout /\ WF_vars(NextLayout)

(***************************************************************************)
(* Properties of parse_layout.                                             *)
(***************************************************************************)
\* The lengths of the fields of a section, padding included.
RECURSIVE SumLengths(_)
SumLengths(flds) ==
    IF flds = <<>> THEN 0 ELSE Head(flds)[3] + SumLengths(Tail(flds))

\* The step reads the 'end' of a section and stores the section.
StoresSection == pc \in {"first", "body"} /\ pc' = "next"

\* Table i of the layout has one more section, the earlier ones unchanged.
GrowsByOne(i) ==
    /\ Len(data') = Len(data)
    /\ \A j \in 1..Len(data) :
        /\ data'[j].name = data[j].name
        /\ data'[j].count = data[j].count
        /\ IF j = i
           THEN /\ Len(data'[j].sections) = Len(data[j].sections) + 1
                /\ SubSeq(data'[j].sections, 1, Len(data[j].sections)) = data[j].sections
           ELSE data'[j].sections = data[j].sections

\* No section is added to or taken from the tables the layout holds.
KeepsSections ==
    /\ Len(data') >= Len(data)
    /\ \A j \in 1..Len(data) : data'[j] = data[j]

\* C2 (section length invariant): a section enters the layout only when its
\* 'end' is read, and then its field lengths, padding included, sum to the
\* total its header declares; a step that raises "lengths do not add up"
\* raises InvalidLayoutError with the line number of the section's header
\* line, which is the place of that line in the layout file and not a later
\* line, and leaves the layout as it was.
C2_SectionLength ==
    [][ /\ StoresSection =>
            LET i == TableIndex(data, tablename) IN
            /\ i > 0
            /\ GrowsByOne(i)
            /\ SumLengths(data'[i].sections[Len(data'[i].sections)].data) = total
            /\ data'[i].sections[Len(data'[i].sections)].offset = baseoffset
        /\ (pc # "constructed" /\ ~StoresSection) => KeepsSections
        /\ (pc = "scan" /\ pc' = "first") => total' = IntOf(line'[3])
        /\ (errmsg = "" /\ errmsg' = "lengths do not add up") =>
            /\ pc \in {"first", "body"}
            /\ pc' = "raised"
            /\ err' = "InvalidLayoutError"
            /\ errline' = headerAt
            /\ errline' < MaxLines - unread'
            /\ data' = data
      ]_vars

\* A section is stored, and a later one whose lengths do not add up is
\* reported at its header line.
C2_Witness ==
    /\ pc = "raised"
    /\ errmsg = "lengths do not add up"
    /\ errline = headerAt
    /\ errline >= 6
    /\ \E i \in 1..Len(data) :
        /\ data[i].sections # <<>>
        /\ data[i].sections[1].data # <<>>

\* C3 (count consistency): a header is accepted only with the count of its
\* table, so the sections of a table share one count, which never changes; a
\* step that raises "Counts must be equal" raises InvalidLayoutError with the
\* line number of the header line just read, names a table the layout holds
\* with sections, and appends no section.
C3_CountConsistency ==
    [][ /\ (pc = "scan" /\ pc' = "first") =>
            /\ TableIndex(data', line'[1]) > 0
            /\ data'[TableIndex(data', line'[1])].count = IntOf(line'[4])
            /\ counts' = IntOf(line'[4])
            /\ tablename' = line'[1]
        /\ StoresSection => counts = data[TableIndex(data, tablename)].count
        /\ pc # "constructed" =>
            /\ Len(data') >= Len(data)
            /\ \A j \in 1..Len(data) :
                data'[j].name = data[j].name /\ data'[j].count = data[j].count
        /\ (errmsg = "" /\ errmsg' = "Counts must be equal") =>
            /\ pc = "scan"
            /\ pc' = "raised"
            /\ err' = "InvalidLayoutError"
            /\ errline' = headerAt'
            /\ errline' = MaxLines - unread'
            /\ data' = data
      ]_vars

\* A table with a stored section reappears with another count; the error is
\* reported at the second header line.
C3_Witness ==
    /\ pc = "raised"
    /\ errmsg = "Counts must be equal"
    /\ errline = headerAt
    /\ errline >= 6
    /\ \E i \in 1..Len(data) : data[i].sections # <<>>

(***************************************************************************)
(* Where the sections lie in the binary file (lines 137-143, 205): byte     *)
(* positions count from 0, records from 0, fields from 1.                  *)
(***************************************************************************)
SectionStart(sect) == sect.offset + file_offset

SectionWidth(sect) == SumLengths(sect.data)

FieldStart(sect, r, i) ==
    SectionStart(sect) + r * SectionWidth(sect) + SumLengths(SubSeq(sect.data, 1, i - 1))

\* The sections of the layout, each with the count of its table.
LayoutSections ==
    UNION { { [sect |-> data[t].sections[k], count |-> data[t].count] :
                k \in 1..Len(data[t].sections) } : t \in 1..Len(data) }

\* The positions of field i of record r of section `sect`.
FieldPositions(sect, r, i) ==
    FieldStart(sect, r, i)..(FieldStart(sect, r, i) + sect.data[i][3] - 1)

\* The positions of the padding bytes of the section records.
PaddingPositions ==
    UNION { UNION { UNION { FieldPositions(s.sect, r, i) :
                              i \in {j \in 1..Len(s.sect.data) :
                                        ~IsColumn(s.sect.data[j])} }
                    : r \in 0..(s.count - 1) }
            : s \in LayoutSections }

\* The positions of the ranges
\* [offset + file_offset, offset + file_offset + count * declared_total).
SectionPositions ==
    UNION { SectionStart(s.sect)..
                (SectionStart(s.sect) + s.count * SectionWidth(s.sect) - 1)
            : s \in LayoutSections }

\* The file f holds every byte of every section record.
HoldsSections(f) ==
    \A s \in LayoutSections :
        SectionStart(s.sect) + s.count * SectionWidth(s.sect) <= Len(f)

\* The column of a table's rows that field i of its k-th section fills.
ColumnOf(sects, k, i) ==
    Len(Columns(SubSeq(sects, 1, k - 1)))
        + Len(SelectSeq(SubSeq(sects[k].data, 1, i), IsColumn))

LastOp == IF ops = <<>> THEN "" ELSE ops[Len(ops)]

(***************************************************************************)
(* Properties of parse_file and write_back.                                *)
(***************************************************************************)
\* C1 (round trip): after parse_file into an empty store and then write_back,
\* both without error, every byte the file held that is not a padding byte of
\* a section record is unchanged and every padding byte of every section
\* record is zero.
C1_RoundTrip ==
    (ops = <<"parse_file", "write_back">> /\ err = "") =>
        /\ \A p \in 0..(Len(file0) - 1) :
            p \notin PaddingPositions => (p < Len(file) /\ file[p + 1] = file0[p + 1])
        /\ \A p \in PaddingPositions : p < Len(file) /\ file[p + 1] = 0

\* The database holds a text whose UTF-8 form is longer than its field.
TextTooLong(st) ==
    \E t \in 1..Len(st) : \E r \in 1..Len(st[t].rows) : \E c \in 1..Len(st[t].cols) :
        LET fld == FieldOf(st[t].name, st[t].cols[c]) IN
        /\ fld[2] = "str"
        /\ Len(Utf8Encode(st[t].rows[r][c])) > fld[3]

\* C4 (text overflow on write): a write_back that finds in the database a
\* text whose encoded form is longer than the declared length of its field
\* fails, and writes no buffer holding that text.
C4_TextOverflowFails ==
    [][ (ops' = Append(ops, "write_back") /\ TextTooLong(store)) => err' # "" ]_vars

\* The integers of the database, each with the length of its field.
StoredIntegers ==
    UNION { { [v |-> store[t].rows[r][c],
               len |-> FieldOf(store[t].name, store[t].cols[c])[3]] :
                r \in 1..Len(store[t].rows),
                c \in {d \in 1..Len(store[t].cols) :
                          FieldOf(store[t].name, store[t].cols[d])[2] = "int"} }
            : t \in 1..Len(store) }

\* The largest value of each length and the one after it.
BoundaryIntegers ==
    UNION { { [v |-> Pow256(n) - 1, len |-> n], [v |-> Pow256(n), len |-> n] } :
            n \in {e.len : e \in StoredIntegers} }

InRange(e) == e.v >= 0 /\ e.v < Pow256(e.len)

\* The section write_back writes last, when there is one.
LastSection ==
    LET t == CHOOSE u \in 1..Len(data) :
                 /\ data[u].sections # <<>>
                 /\ \A w \in (u + 1)..Len(data) : data[w].sections = <<>>
    IN  [name |-> data[t].name, sect |-> data[t].sections[Len(data[t].sections)]]

\* The file holds, at the place of each integer field of each row written for
\* the last section, the encoding of the row's value: exactly `len` bytes.
LastSectionWritten ==
    LET ls == LastSection
        names == Names(SelectSeq(ls.sect.data, IsColumn))
        rows == SelectRows(store, ls.name, names)
    IN  \A r \in 1..Len(rows) : \A i \in 1..Len(ls.sect.data) :
            IsColumn(ls.sect.data[i]) =>
                LET at == FieldStart(ls.sect, r - 1, i)
                    len == ls.sect.data[i][3]
                    v == rows[r][Len(SelectSeq(SubSeq(ls.sect.data, 1, i), IsColumn))]
                IN  /\ at + len <= Len(file)
                    /\ Len(SubSeq(file, at + 1, at + len)) = len
                    /\ SubSeq(file, at + 1, at + len) = ToBytes(v, len, byteorder).bytes
                    /\ FromBytes(SubSeq(file, at + 1, at + len), byteorder) = v

\* C5 (integer width boundary): for the integers of the database and the
\* boundary values of their lengths, in the byte order of the parser, a value
\* from 0 to 256^len - 1 encodes without error to exactly len bytes that
\* decode to the value, and the value 256^len does not encode; a write_back
\* that ends without error found every integer in range and left the encoded
\* bytes in the file, and one that ends with OverflowError found an integer
\* out of range.
C5_IntegerWidth ==
    /\ \A e \in StoredIntegers \cup BoundaryIntegers :
        LET enc == ToBytes(e.v, e.len, byteorder) IN
        /\ e.len >= 1
        /\ InRange(e) =>
            /\ enc.err = ""
            /\ Len(enc.bytes) = e.len
            /\ FromBytes(enc.bytes, byteorder) = e.v
        /\ e.v = Pow256(e.len) => enc.err = "OverflowError"
    /\ (LastOp = "write_back" /\ err = "") =>
        /\ \A e \in StoredIntegers : InRange(e)
        /\ LayoutSections # {} => LastSectionWritten
    /\ (LastOp = "write_back" /\ err = "OverflowError") =>
        \E e \in StoredIntegers : ~InRange(e)

\* A write_back has written the largest value of a field, set by an edit.
C5_Witness ==
    /\ ops = <<"parse_file", "edit", "write_back">>
    /\ err = ""
    /\ \E e \in StoredIntegers : e.v = Pow256(e.len) - 1 /\ e.len = 2
    /\ LayoutSections # {}
    /\ LastSectionWritten

\* C6 (reader row assembly): after parse_file into an empty store, without
\* error, every table of the layout holds `count` rows of as many values as
\* the table has non-padding fields, its columns named as the fields are
\* declared, section by section; the value of row r for a field is decoded
\* from the `length` bytes of the file that start at the field's place in
\* record r of its section.
C6_RowAssembly ==
    (ops = <<"parse_file">> /\ err = "") =>
        \A t \in 1..Len(data) :
            /\ HasTable(store, data[t].name)
            /\ LET tb == store[StoreIndex(store, data[t].name)]
                   sects == data[t].sections
               IN  /\ tb.cols = Names(Columns(sects))
                   /\ Len(tb.rows) = data[t].count
                   /\ \A r \in 1..Len(tb.rows) :
                       /\ Len(tb.rows[r]) = Len(Columns(sects))
                       /\ \A k \in 1..Len(sects) : \A i \in 1..Len(sects[k].data) :
                           IsColumn(sects[k].data[i]) =>
                               LET at == FieldStart(sects[k], r - 1, i)
                                   len == sects[k].data[i][3]
                               IN  /\ at + len <= Len(file0)
                                   /\ tb.rows[r][ColumnOf(sects, k, i)] =
                                       DecodeField(sects[k].data[i][2],
                                                   SubSeq(file0, at + 1, at + len),
                                                   byteorder).value

\* The file a step finds at binary_path.
FileFound == IF touched THEN file ELSE file0'

\* C7 (writer frame): a write_back after parse_file and write_back operations
\* only, on a file that holds every section record, leaves the file its size
\* and changes no byte outside the ranges of the sections.
C7_WriterFrame ==
    [][ ( /\ ops' = Append(ops, "write_back")
          /\ \A n \in 1..Len(ops) : ops[n] \in {"parse_file", "write_back"}
          /\ HoldsSections(FileFound) ) =>
            /\ Len(file') = Len(FileFound)
            /\ \A p \in 0..(Len(FileFound) - 1) :
                p \notin SectionPositions => file'[p + 1] = FileFound[p + 1]
      ]_vars

\* C8 (resource release): once __enter__ has raised or the with block is
\* left the layout file is closed, and outside a running operation no handle
\* on the binary file and no database connection is open.
C8_HandlesReleased ==
    /\ pc \in {"raised", "closed"} => ~layoutOpen
    /\ ~fOpen
    /\ ~connOpen

\* The file f ends before the last byte of some field of some section record.
Truncated(f) ==
    \E s \in LayoutSections :
        SectionStart(s.sect) + s.count * SectionWidth(s.sect) > Len(f)

\* C9 (truncated source): parse_file on a file that ends before the bytes of
\* a field can be read fails, and inserts no row.
C9_TruncatedFails ==
    (ops = <<"parse_file">> /\ Truncated(file0)) =>
        /\ err # ""
        /\ \A t \in 1..Len(store) : store[t].rows = <<>>

\* C10 (parse termination): parse_layout eventually stops, returning a layout
\* or raising an error.
C10_ParseTerminates == <>(pc \in {"ready", "raised"})
====
